---- MODULE Spec2Model ----
(***************************************************************************)
(* wsd_to_ip (src/src/main.rs): enumerate the local printers with the      *)
(* two-call EnumPrintersW protocol, keep the printers whose port name      *)
(* starts with "WSD", print one block per kept printer.                    *)
(*                                                                         *)
(* Strings are sequences of numbers: UTF-16 code units in the spooler's    *)
(* buffer, code points in an OsString.  A pointer into the buffer is the   *)
(* index of a cell of the buffer's string area; 0 is the null pointer and  *)
(* an index past the area points outside the allocation.                   *)
(*                                                                         *)
(* The spooler is the environment.  Its return value, required size and    *)
(* count are free; the one thing assumed of it is that a call reporting    *)
(* success has written no more than the cbBuf bytes it was handed.         *)
(***************************************************************************)
EXTENDS Integers, Sequences, FiniteSets, TLC

\* ------------------------------------------------------------------ bounds
MaxPrinters == 2
MaxList == 3

\* ------------------------------------------------------- program constants
PRINTER_ENUM_LOCAL == 2
Level == 2

WSD == <<87, 83, 68>>

\* sizeof(PRINTER_INFO_2W): thirteen pointers and eight DWORDs
HeaderBytes == 13 * 8 + 8 * 4

\* ------------------------------------------------------- strings and text
IsHighSurrogate(u) == u \in 55296..56319
IsLowSurrogate(u) == u \in 56320..57343
IsSurrogate(u) == u \in 55296..57343

RECURSIVE from_wide(_)
\* OsString::from_wide: a high surrogate followed by a low one becomes one
\* supplementary code point, every other unit (a lone surrogate too) is kept
from_wide(w) ==
    IF Len(w) = 0 THEN <<>>
    ELSE IF Len(w) >= 2 /\ IsHighSurrogate(w[1]) /\ IsLowSurrogate(w[2])
         THEN <<65536 + (w[1] - 55296) * 1024 + (w[2] - 56320)>>
                  \o from_wide(SubSeq(w, 3, Len(w)))
         ELSE <<w[1]>> \o from_wide(Tail(w))

None == [some |-> FALSE, val |-> <<>>]
Some(v) == [some |-> TRUE, val |-> v]

\* to_string_lossy in place of to_str: a lone surrogate no longer fails
to_str_lossy(os) == Some(os)

\* OsStr::to_str: the text, unless the string holds a lone surrogate
to_str(os) ==
    IF \E i \in 1..Len(os) : IsSurrogate(os[i]) THEN None ELSE Some(os)

\* str::starts_with
starts_with(s, prefix) ==
    /\ Len(s) >= Len(prefix)
    /\ SubSeq(s, 1, Len(prefix)) = prefix

MinimalPrinterInfo(printer_name, port_name, driver_name) ==
    [printer_name |-> printer_name, port_name |-> port_name,
     driver_name |-> driver_name]

\* ------------------------------------------------- the spooler's buffer
\* The strings the spooler writes behind the headers, each zero-terminated:
\* "HP", "WSD-a", "LPT1", "WSD" + a lone high surrogate, "Drv"
PoolStrings ==
    << <<72, 80>>, <<87, 83, 68, 45, 97>>, <<76, 80, 84, 49>>,
       <<87, 83, 68, 55357>>, <<68, 114, 118>> >>

RECURSIVE Layout(_)
Layout(strs) ==
    IF Len(strs) = 0 THEN <<>> ELSE Head(strs) \o <<0>> \o Layout(Tail(strs))

StringArea == Layout(PoolStrings)
StringBytes == 2 * Len(StringArea)

\* the address of the k-th pool string
StartOf(k) == Len(Layout(SubSeq(PoolStrings, 1, k - 1))) + 1

NullPtr == 0
OutsidePtr == Len(StringArea) + 1

PtrInBuffer(ptr) == ptr \in 1..Len(StringArea)

NamePtrs == {StartOf(1), NullPtr}
PortPtrs == {StartOf(2), StartOf(3), StartOf(4)}
DriverPtrs == {StartOf(5), NullPtr, OutsidePtr}

Headers ==
    [pPrinterName : NamePtrs, pPortName : PortPtrs, pDriverName : DriverPtrs]

SeqsUpTo(S, n) == UNION {[1..k -> S] : k \in 0..n}

\* the bytes a filled buffer of n printers takes
Required(n) == IF n = 0 THEN 0 ELSE n * HeaderBytes + StringBytes

Sizes == {Required(n) : n \in 0..MaxPrinters}

RECURSIVE ScanLength(_, _, _)
ScanLength(mem, ptr, length) ==
    IF mem[ptr + length] # 0 THEN ScanLength(mem, ptr, length + 1) ELSE length

\* wide_str_from_raw_ptr on a pointer into the buffer
wide_str_from_raw_ptr(mem, ptr) ==
    SubSeq(mem, ptr, ptr + ScanLength(mem, ptr, 0) - 1)

\* what a scan through a null pointer or outside the allocation can read
GarbageReads == {<<>>, <<63>>}

\* the outcomes of one scan: the string, or - undefined behaviour on a
\* pointer that is null or outside the buffer - a fault or whatever is there
ScanOutcomes(mem, ptr) ==
    IF PtrInBuffer(ptr)
    THEN {[fault |-> FALSE, val |-> wide_str_from_raw_ptr(mem, ptr)]}
    ELSE {[fault |-> TRUE, val |-> <<>>]}
             \cup {[fault |-> FALSE, val |-> g] : g \in GarbageReads}

\* ------------------------------------------------------------------ state
VARIABLES
    pc,                 \* position in main / get_all_printers
    log,                \* the events written to wsd_to_ip.log
    calls,              \* the EnumPrintersW calls made, with their results
    bytes_needed, num_printers,
    enum_printer_result1, enum_printer_result2,
    buffer_len,         \* length of the allocated buffer
    buffer,             \* what the spooler wrote: headers and string area
    printer_info,       \* the slice of headers
    reinterpreted,      \* the buffer has been cast to a header slice
    bad_deref,          \* a scan has read through a null/outside pointer
    min_printer_info,
    all_printers, wsd_printers,
    stdout,
    f_wide, f_in, f_out, f_out2, f_pc   \* get_wsd_printers on its own

vars == <<pc, log, calls, bytes_needed, num_printers, enum_printer_result1,
          enum_printer_result2, buffer_len, buffer, printer_info,
          reinterpreted, bad_deref, min_printer_info, all_printers,
          wsd_printers, stdout, f_wide, f_in, f_out, f_out2, f_pc>>

fvars == <<f_wide, f_in, f_out, f_out2, f_pc>>
gapvars == <<bytes_needed, num_printers, enum_printer_result1,
             enum_printer_result2, buffer_len, buffer, printer_info,
             reinterpreted, bad_deref, min_printer_info>>

Event(level, fn, line) == [level |-> level, fn |-> fn, line |-> line]

EmptyBuffer == [headers |-> <<>>, mem |-> <<>>]

Init ==
    /\ pc = "main"
    /\ log = <<>>
    /\ calls = <<>>
    /\ bytes_needed = 0
    /\ num_printers = 0
    /\ enum_printer_result1 = 0
    /\ enum_printer_result2 = 0
    /\ buffer_len = 0
    /\ buffer = EmptyBuffer
    /\ printer_info = <<>>
    /\ reinterpreted = FALSE
    /\ bad_deref = FALSE
    /\ min_printer_info = <<>>
    /\ all_printers = <<>>
    /\ wsd_printers = <<>>
    /\ stdout = <<>>
    /\ f_wide = <<>>
    /\ f_in = <<>>
    /\ f_out = <<>>
    /\ f_out2 = <<>>
    /\ f_pc = "idle"

\* ------------------------------------------------------ get_all_printers
\* the events of get_last_error's caller: always the first error, and a
\* second one when GetLastError gives a non-zero code
FailureEvents(line, haveLastError) ==
    <<Event("error", "get_all_printers", line)>>
        \o (IF haveLastError
            THEN <<Event("error", "get_all_printers", line + 2)>> ELSE <<>>)

\* what a call handed cb_buf bytes may leave behind: on failure nothing; on
\* success no more bytes than cb_buf, holding `returned` headers and, when
\* there are headers, the string area they point into
SpoolerFill(cb_buf, ret, needed, returned) ==
    IF ret = 0
    THEN {EmptyBuffer}
    ELSE IF needed > cb_buf \/ Required(returned) > cb_buf
         THEN {}
         ELSE {[headers |-> hs, mem |-> IF returned = 0 THEN <<>> ELSE StringArea]
                 : hs \in [1..returned -> Headers]}

\* main up to the call, and the first EnumPrintersW call: no buffer, size 0
FirstCall ==
    /\ pc = "main"
    /\ \E ret \in {0, 1}, needed \in Sizes, returned \in 0..MaxPrinters :
         /\ SpoolerFill(0, ret, needed, returned) # {}
         /\ enum_printer_result1' = ret
         /\ bytes_needed' = needed
         /\ num_printers' = returned
         /\ calls' = Append(calls,
                [flags |-> PRINTER_ENUM_LOCAL, level |-> Level,
                 buf_len |-> 0, cb_buf |-> 0,
                 ret |-> ret, needed |-> needed])
    /\ log' = log \o <<Event("info", "main", 188),
                       Event("info", "get_all_printers", 74)>>
    /\ pc' = "check1"
    /\ UNCHANGED <<enum_printer_result2, buffer_len, buffer, printer_info,
                   reinterpreted, bad_deref, min_printer_info, all_printers,
                   wsd_printers, stdout, fvars>>

\* the test on the return value inverted
HardFailure1_inverted(result1, needed) == result1 # 0 /\ needed = 0

HardFailure1(result1, needed) == result1 = 0 /\ needed = 0

CheckFirst ==
    /\ pc = "check1"
    /\ IF HardFailure1(enum_printer_result1, bytes_needed)
       THEN /\ \E haveLastError \in BOOLEAN :
                 log' = log \o FailureEvents(88, haveLastError)
            /\ all_printers' = min_printer_info
            /\ pc' = "main_check"
       ELSE /\ log' = Append(log, Event("info", "get_all_printers", 94))
            /\ pc' = "alloc"
            /\ UNCHANGED all_printers
    /\ UNCHANGED <<calls, gapvars, wsd_printers, stdout, fvars>>

\* one spare byte allocated
AllocLen_spare(needed) == needed + 1

AllocLen(needed) == needed

Allocate ==
    /\ pc = "alloc"
    /\ buffer_len' = AllocLen(bytes_needed)
    /\ pc' = "call2"
    /\ UNCHANGED <<log, calls, bytes_needed, num_printers,
                   enum_printer_result1, enum_printer_result2, buffer,
                   printer_info, reinterpreted, bad_deref, min_printer_info,
                   all_printers, wsd_printers, stdout, fvars>>

CbBuf(needed) == needed

SecondCall ==
    /\ pc = "call2"
    /\ \E ret \in {0, 1}, needed \in Sizes, returned \in 0..MaxPrinters :
         \E filled \in SpoolerFill(CbBuf(bytes_needed), ret, needed, returned) :
            /\ enum_printer_result2' = ret
            /\ bytes_needed' = needed
            /\ num_printers' = returned
            /\ buffer' = filled
            /\ calls' = Append(calls,
                   [flags |-> PRINTER_ENUM_LOCAL, level |-> Level,
                    buf_len |-> buffer_len, cb_buf |-> CbBuf(bytes_needed),
                    ret |-> ret, needed |-> needed])
    /\ log' = Append(log, Event("info", "get_all_printers", 101))
    /\ pc' = "check2"
    /\ UNCHANGED <<enum_printer_result1, buffer_len, printer_info,
                   reinterpreted, bad_deref, min_printer_info, all_printers,
                   wsd_printers, stdout, fvars>>

\* && written for ||
HardFailure2_and(result2, needed) == result2 = 0 /\ needed = 0

\* the required size not looked at
HardFailure2_ret_only(result2, needed) == result2 = 0

HardFailure2(result2, needed) == result2 = 0 \/ needed = 0

CheckSecond ==
    /\ pc = "check2"
    /\ IF HardFailure2(enum_printer_result2, bytes_needed)
       THEN /\ \E haveLastError \in BOOLEAN :
                 log' = log \o FailureEvents(115, haveLastError)
            /\ all_printers' = min_printer_info
            /\ pc' = "main_check"
       ELSE /\ log' = Append(log, Event("info", "get_all_printers", 121))
            /\ pc' = "cast"
            /\ UNCHANGED all_printers
    /\ UNCHANGED <<calls, gapvars, wsd_printers, stdout, fvars>>

\* slice::from_raw_parts(buffer as *const PRINTER_INFO_2W, num_printers)
Reinterpret ==
    /\ pc = "cast"
    /\ printer_info' = SubSeq(buffer.headers, 1, num_printers)
    /\ reinterpreted' = TRUE
    /\ log' = Append(log, Event("info", "get_all_printers", 125))
    /\ pc' = "check_slice"
    /\ UNCHANGED <<calls, bytes_needed, num_printers, enum_printer_result1,
                   enum_printer_result2, buffer_len, buffer, bad_deref,
                   min_printer_info, all_printers, wsd_printers, stdout,
                   fvars>>

CheckSlice ==
    /\ pc = "check_slice"
    /\ IF Len(printer_info) = 0
       THEN /\ log' = Append(log, Event("warn", "get_all_printers", 135))
            /\ all_printers' = min_printer_info
            /\ pc' = "main_check"
       ELSE /\ log' = Append(log, Event("info", "get_all_printers", 138))
            /\ pc' = "extract"
            /\ UNCHANGED all_printers
    /\ UNCHANGED <<calls, gapvars, wsd_printers, stdout, fvars>>

\* port and driver taken from each other's pointer
RecordOf_swapped(name, port, driver) ==
    MinimalPrinterInfo(from_wide(name), from_wide(driver), from_wide(port))

\* the record built from one header's three scanned strings
RecordOf(name, port, driver) ==
    MinimalPrinterInfo(from_wide(name), from_wide(port), from_wide(driver))

\* one turn of the loop over printer_info
ExtractRecord ==
    /\ pc = "extract"
    /\ Len(min_printer_info) < Len(printer_info)
    /\ LET printer == printer_info[Len(min_printer_info) + 1]
       IN /\ bad_deref' = (\/ bad_deref
                           \/ ~PtrInBuffer(printer.pPrinterName)
                           \/ ~PtrInBuffer(printer.pPortName)
                           \/ ~PtrInBuffer(printer.pDriverName))
          /\ \E n \in ScanOutcomes(buffer.mem, printer.pPrinterName),
                p \in ScanOutcomes(buffer.mem, printer.pPortName),
                d \in ScanOutcomes(buffer.mem, printer.pDriverName) :
               IF n.fault \/ p.fault \/ d.fault
               THEN /\ pc' = "fault"
                    /\ UNCHANGED min_printer_info
               ELSE /\ pc' = "extract"
                    /\ min_printer_info' =
                           Append(min_printer_info,
                                  RecordOf(n.val, p.val, d.val))
    /\ UNCHANGED <<log, calls, bytes_needed, num_printers,
                   enum_printer_result1, enum_printer_result2, buffer_len,
                   buffer, printer_info, reinterpreted, all_printers,
                   wsd_printers, stdout, fvars>>

ReturnPrinters ==
    /\ pc = "extract"
    /\ Len(min_printer_info) = Len(printer_info)
    /\ all_printers' = min_printer_info
    /\ pc' = "main_check"
    /\ UNCHANGED <<log, calls, gapvars, wsd_printers, stdout, fvars>>

\* ------------------------------------------------------ get_wsd_printers
\* to_str(..).map_or(false, |s| s.starts_with("WSD"))
IsWsdPort(printer) ==
    LET opt == to_str(printer.port_name)
    IN IF opt.some THEN starts_with(opt.val, WSD) ELSE FALSE

\* the iterator advanced once before collecting
get_wsd_printers_skip(printers) ==
    IF Len(printers) = 0 \/ Len(SelectSeq(printers, IsWsdPort)) = 0
    THEN <<>>
    ELSE Tail(SelectSeq(printers, IsWsdPort))

get_wsd_printers(printers) ==
    IF Len(printers) = 0 THEN <<>> ELSE SelectSeq(printers, IsWsdPort)

get_wsd_printers_events(printers) ==
    IF Len(printers) = 0
    THEN <<Event("warn", "get_wsd_printers", 161)>>
    ELSE <<Event("info", "get_wsd_printers", 166),
           Event("info", "get_wsd_printers", 175)>>

\* ------------------------------------------------------------------ main
MainCheckPrinters ==
    /\ pc = "main_check"
    /\ IF Len(all_printers) = 0
       THEN /\ log' = Append(log, Event("warn", "main", 192))
            /\ pc' = "done"
       ELSE /\ log' = Append(log, Event("info", "main", 195))
            /\ pc' = "filter"
    /\ UNCHANGED <<calls, gapvars, all_printers, wsd_printers, stdout, fvars>>

MainFilter ==
    /\ pc = "filter"
    /\ wsd_printers' = get_wsd_printers(all_printers)
    /\ log' = log \o get_wsd_printers_events(all_printers)
    /\ pc' = "main_check_wsd"
    /\ UNCHANGED <<calls, gapvars, all_printers, stdout, fvars>>

MainCheckWsd ==
    /\ pc = "main_check_wsd"
    /\ IF Len(wsd_printers) = 0
       THEN /\ log' = Append(log, Event("warn", "main", 201))
            /\ pc' = "done"
       ELSE /\ pc' = "print"
            /\ UNCHANGED log
    /\ UNCHANGED <<calls, gapvars, all_printers, wsd_printers, stdout, fvars>>

\* {:?} of an OsString: the text between double quotes
Debug(os) == <<34>> \o os \o <<34>>

Block(printer) ==
    <<"Printer Name: ", Debug(printer.printer_name),
      "\n Port Name: ", Debug(printer.port_name),
      "\n Driver Name: ", Debug(printer.driver_name), "\n">>

\* the loop run over all_printers
PrintBlock_all ==
    /\ pc = "print"
    /\ Len(stdout) < Len(wsd_printers)
    /\ stdout' = Append(stdout, Block(all_printers[Len(stdout) + 1]))
    /\ UNCHANGED <<pc, log, calls, gapvars, all_printers, wsd_printers, fvars>>

\* one turn of the loop over wsd_printers
PrintBlock ==
    /\ pc = "print"
    /\ Len(stdout) < Len(wsd_printers)
    /\ stdout' = Append(stdout, Block(wsd_printers[Len(stdout) + 1]))
    /\ UNCHANGED <<pc, log, calls, gapvars, all_printers, wsd_printers, fvars>>

MainReturn ==
    /\ pc = "print"
    /\ Len(stdout) = Len(wsd_printers)
    /\ pc' = "done"
    /\ UNCHANGED <<log, calls, gapvars, all_printers, wsd_printers, stdout,
                   fvars>>

Next ==
    \/ FirstCall
    \/ CheckFirst
    \/ Allocate
    \/ SecondCall
    \/ CheckSecond
    \/ Reinterpret
    \/ CheckSlice
    \/ ExtractRecord
    \/ ReturnPrinters
    \/ MainCheckPrinters
    \/ MainFilter
    \/ MainCheckWsd
    \/ PrintBlock
    \/ MainReturn

Spec == Init /\ [][Next]_vars

\* ------------------------------------------- get_wsd_printers on its own
\* the wide strings the input records are made of: "", "WS", "WSD", "WSD1",
\* "wsd", "WSd", "WSD" + a lone high surrogate, "WSD" + a surrogate pair
PortWides ==
    { <<>>, <<87, 83>>, <<87, 83, 68>>, <<87, 83, 68, 49>>,
      <<119, 115, 100>>, <<87, 83, 100>>, <<87, 83, 68, 55357>>,
      <<87, 83, 68, 55357, 56832>> }

NameWides == { <<65>>, <<66>> }

WideRecords ==
    [printer_name : NameWides, port_name : PortWides,
     driver_name : { <<68, 114, 118>> }]

FilterInit ==
    /\ pc = "main"
    /\ log = <<>>
    /\ calls = <<>>
    /\ bytes_needed = 0
    /\ num_printers = 0
    /\ enum_printer_result1 = 0
    /\ enum_printer_result2 = 0
    /\ buffer_len = 0
    /\ buffer = EmptyBuffer
    /\ printer_info = <<>>
    /\ reinterpreted = FALSE
    /\ bad_deref = FALSE
    /\ min_printer_info = <<>>
    /\ all_printers = <<>>
    /\ wsd_printers = <<>>
    /\ stdout = <<>>
    /\ f_wide \in SeqsUpTo(WideRecords, MaxList)
    /\ f_in = [i \in 1..Len(f_wide) |->
                 RecordOf(f_wide[i].printer_name, f_wide[i].port_name,
                          f_wide[i].driver_name)]
    /\ f_out = <<>>
    /\ f_out2 = <<>>
    /\ f_pc = "input"

FilterOnce ==
    /\ f_pc = "input"
    /\ f_out' = get_wsd_printers(f_in)
    /\ log' = log \o get_wsd_printers_events(f_in)
    /\ f_pc' = "once"
    /\ UNCHANGED <<pc, calls, gapvars, all_printers, wsd_printers, stdout,
                   f_wide, f_in, f_out2>>

FilterTwice ==
    /\ f_pc = "once"
    /\ f_out2' = get_wsd_printers(f_out)
    /\ log' = log \o get_wsd_printers_events(f_out)
    /\ f_pc' = "twice"
    /\ UNCHANGED <<pc, calls, gapvars, all_printers, wsd_printers, stdout,
                   f_wide, f_in, f_out>>

FilterNext ==
    \/ FilterOnce
    \/ FilterTwice

SpecFilter == FilterInit /\ [][FilterNext]_vars

\* ================================================================ claims
HasLevel(level) == \E i \in 1..Len(log) : log[i].level = level

\* get_all_printers has returned to main
Returned == pc \in {"main_check", "filter", "main_check_wsd", "print", "done"}

FirstHardFailed ==
    Len(calls) >= 1 /\ calls[1].ret = 0 /\ calls[1].needed = 0

SecondHardFailed ==
    Len(calls) = 2 /\ (calls[2].ret = 0 \/ calls[2].needed = 0)

\* a wide string is well-formed UTF-16 and begins with the units W, S, D
WideIsWsdText(w) ==
    /\ \A i \in 1..Len(w) :
          /\ IsHighSurrogate(w[i]) => (i < Len(w) /\ IsLowSurrogate(w[i + 1]))
          /\ IsLowSurrogate(w[i]) => (i > 1 /\ IsHighSurrogate(w[i - 1]))
    /\ Len(w) >= 3
    /\ w[1] = 87 /\ w[2] = 83 /\ w[3] = 68

KeptIndexes == {i \in 1..Len(f_wide) : WideIsWsdText(f_wide[i].port_name)}

NthKept(j) ==
    CHOOSE i \in KeptIndexes : Cardinality({k \in KeptIndexes : k <= i}) = j

\* C1: get_wsd_printers returns, in input order, exactly the records whose
\* port name is well-formed text beginning with the case-sensitive "WSD"; a
\* record whose port name does not decode is left out; [] gives [].
C1_StableExactFilter ==
    f_pc # "input" =>
        /\ Len(f_out) = Cardinality(KeptIndexes)
        /\ \A j \in 1..Len(f_out) : f_out[j] = f_in[NthKept(j)]
        /\ (f_wide = <<>> => f_out = <<>>)

C1_Witness ==
    /\ f_pc = "once"
    /\ Len(f_wide) = 3
    /\ Len(f_out) = 1
    /\ f_out[1] = f_in[3]
    /\ f_wide[1].port_name = <<87, 83, 68, 55357>>
    /\ f_wide[2].port_name = <<119, 115, 100>>

\* C2: get_wsd_printers applied to its own result gives that result again,
\* also when the result is empty.
C2_Idempotent == f_pc = "twice" => f_out2 = f_out

C2_Witness ==
    /\ f_pc = "twice"
    /\ Len(f_in) = 3
    /\ Len(f_out) = 2
    /\ f_out[1] # f_out[2]

\* C3: when the first call reports failure and leaves the required size at
\* 0, no second call is made, and get_all_printers returns [] with an error
\* event already logged.
C3_FirstCallHardFailure ==
    FirstHardFailed =>
        /\ Len(calls) = 1
        /\ pc # "fault"
        /\ Returned => (all_printers = <<>> /\ HasLevel("error"))

C3_Witness ==
    /\ pc = "main_check"
    /\ FirstHardFailed
    /\ all_printers = <<>>

\* C4: when the second call succeeds with count 0, get_all_printers returns
\* [] and the buffer is never reinterpreted as a slice of header records.
C4_NoCastWhenCountZero ==
    (Len(calls) = 2 /\ calls[2].ret # 0 /\ num_printers = 0) =>
        /\ ~reinterpreted
        /\ Returned => all_printers = <<>>

\* C5: a header whose driver_name pointer is null or outside the buffer
\* still gives a record, with driver_name "", and no scan reads through a
\* null pointer or outside the buffer.
C5_InvalidDriverPointer ==
    \A i \in 1..Len(printer_info) :
        ~PtrInBuffer(printer_info[i].pDriverName) =>
            /\ pc # "fault"
            /\ ~bad_deref
            /\ Len(min_printer_info) >= i =>
                   min_printer_info[i].driver_name = <<>>

\* C6: on every failure path (first call hard failure, second call
\* reporting failure, second call leaving the required size at 0)
\* get_all_printers returns [] with an error event logged, without
\* reinterpreting the buffer or building a record, and without a fault.
C6_FailurePaths ==
    (FirstHardFailed \/ SecondHardFailed) =>
        /\ pc # "fault"
        /\ ~reinterpreted
        /\ min_printer_info = <<>>
        /\ Returned => (all_printers = <<>> /\ HasLevel("error"))

C6_Witness ==
    /\ pc = "done"
    /\ Len(calls) = 2
    /\ calls[2].ret # 0
    /\ calls[2].needed = 0

\* a port name, as an OsString, is text beginning with W, S, D
PortIsWsdText(os) ==
    /\ Len(os) >= 3
    /\ os[1] = 87 /\ os[2] = 83 /\ os[3] = 68
    /\ \A i \in 1..Len(os) : os[i] \notin 55296..57343

RECURSIVE ExpectedBlocks(_)
ExpectedBlocks(printers) ==
    IF Len(printers) = 0 THEN <<>>
    ELSE (IF PortIsWsdText(Head(printers).port_name)
          THEN <<Block(Head(printers))>> ELSE <<>>)
             \o ExpectedBlocks(Tail(printers))

IsPrefix(a, b) == Len(a) <= Len(b) /\ SubSeq(b, 1, Len(a)) = a

\* C7: main writes one block per record of the enumerator's list whose port
\* name starts with "WSD", in enumeration order, and nothing else; with an
\* empty list or no match it writes nothing and returns.
C7_StdoutBlocks ==
    /\ IsPrefix(stdout, ExpectedBlocks(all_printers))
    /\ pc = "done" => stdout = ExpectedBlocks(all_printers)
    /\ ~Returned => stdout = <<>>

C7_Witness ==
    /\ pc = "done"
    /\ Len(all_printers) = 2
    /\ all_printers[1].port_name = <<76, 80, 84, 49>>
    /\ all_printers[2].port_name = <<87, 83, 68, 45, 97>>
    /\ stdout = <<Block(all_printers[2])>>

\* the pool string a pointer to the start of a string refers to
StringAt(ptr) ==
    PoolStrings[CHOOSE k \in 1..Len(PoolStrings) : StartOf(k) = ptr]

AllPointersValid ==
    \A i \in 1..Len(buffer.headers) :
        /\ PtrInBuffer(buffer.headers[i].pPrinterName)
        /\ PtrInBuffer(buffer.headers[i].pPortName)
        /\ PtrInBuffer(buffer.headers[i].pDriverName)

\* neither call hard-failed and the second call delivered n > 0 headers
FilledBuffer ==
    /\ Len(calls) = 2
    /\ ~FirstHardFailed
    /\ calls[2].ret # 0 /\ calls[2].needed # 0
    /\ num_printers > 0

\* C8: with a filled buffer of n > 0 headers whose pointers are all valid,
\* get_all_printers returns n records, the i-th holding the three strings
\* the i-th header points to.
C8_RecordsInOrder ==
    (FilledBuffer /\ AllPointersValid) =>
        /\ pc # "fault"
        /\ Returned =>
              /\ Len(all_printers) = num_printers
              /\ \A i \in 1..num_printers :
                    /\ all_printers[i].printer_name =
                           StringAt(buffer.headers[i].pPrinterName)
                    /\ all_printers[i].port_name =
                           StringAt(buffer.headers[i].pPortName)
                    /\ all_printers[i].driver_name =
                           StringAt(buffer.headers[i].pDriverName)

C8_Witness ==
    /\ pc = "main_check"
    /\ FilledBuffer /\ AllPointersValid
    /\ Len(all_printers) = 2
    /\ all_printers[1].port_name # all_printers[2].port_name

NoFailureReported == \A i \in 1..Len(calls) : calls[i].ret # 0

\* C9 as stated: a run in which no call reported a failure and no printer
\* was found logs warnings and no error.
C9_NoPrintersOnlyWarned ==
    (pc = "done" /\ NoFailureReported /\ all_printers = <<>>) =>
        (HasLevel("warn") /\ ~HasLevel("error"))

\* C9 amended: count 0 from a second call that succeeded with a non-zero
\* required size gives warnings only, an early return and no output; a
\* required size left at 0, like a reported failure, gives an error event.
C9_WarnOnlyWhenSizeNonZero ==
    /\ (Len(calls) = 2 /\ calls[2].ret # 0 /\ calls[2].needed # 0
            /\ num_printers = 0 /\ Returned) =>
          /\ HasLevel("warn") /\ ~HasLevel("error")
          /\ all_printers = <<>> /\ stdout = <<>>
          /\ pc \in {"main_check", "done"}
    /\ (Returned /\ (FirstHardFailed \/ SecondHardFailed)) =>
          HasLevel("error")

C9_Witness ==
    /\ pc = "done"
    /\ Len(calls) = 2
    /\ calls[2].ret # 0 /\ calls[2].needed # 0
    /\ num_printers = 0
    /\ log[Len(log)] = Event("warn", "main", 192)

\* C10: at most two calls; the first with a zero-size buffer; the second
\* only after a first that did not hard-fail, with a buffer whose length and
\* declared size are the required size the first call reported, and the
\* same flags and level.
C10_CallProtocol ==
    /\ Len(calls) <= 2
    /\ Len(calls) >= 1 =>
          /\ calls[1].buf_len = 0 /\ calls[1].cb_buf = 0
          /\ calls[1].flags = 2 /\ calls[1].level = 2
    /\ Len(calls) = 2 =>
          /\ ~FirstHardFailed
          /\ calls[2].buf_len = calls[1].needed
          /\ calls[2].cb_buf = calls[1].needed
          /\ calls[2].flags = calls[1].flags
          /\ calls[2].level = calls[1].level

C10_Witness ==
    /\ Len(calls) = 2
    /\ calls[2].cb_buf > 0
    /\ calls[2].ret # 0

====
